---------------------------- MODULE Spec2Model ----------------------------
(***************************************************************************)
(* A model of MopsDisplay: the anchored Cell of src/src/grid.py with its   *)
(* resize lock, the departure pipeline of src/src/data.py, and the refresh *)
(* cycle of src/__main__.py that feeds the DepartureArtist slots of        *)
(* src/src/artist.py; further the corner geometry and the Grid of grid.py  *)
(* and the static Cell, the StackArtist and the GridCanvas resize of       *)
(* artist.py.                                                              *)
(*                                                                         *)
(* Numbers.  Python floats that arise in the geometry are multiples of     *)
(* 1/2 (a coordinate plus or minus half a size), so every coordinate and   *)
(* size is held in HALF UNITS: the model integer h stands for h/2.         *)
(* Times are held in half minutes for the same reason (floor() is then a   *)
(* real conversion).                                                       *)
(***************************************************************************)
EXTENDS Integers, Sequences, FiniteSets, TLC

VARIABLES
    \* ---- grid.py: one Cell ----
    args,       \* the arguments of the pending Cell(...) call
    cell,       \* the Cell object: its instance attributes and its lock's flag
    op,         \* the last operation performed on the cell
    exc,        \* the exception the last operation raised, NoExc if none
    fired,      \* how many times the last operation invoked _on_resize
    seen,       \* the geometry _on_resize saw at that invocation, NoSnap if none
    writes,     \* writes (x, y, width, height, rows, columns) made in the
                \* current lock scope
    \* ---- data.py: Station._create_departure on one record ----
    raw,        \* the raw record handed to _create_departure
    created,    \* what _create_departure did with it
    \* ---- data.py / __main__.py: the refresh cycle ----
    pc,         \* where the program is (see the actions)
    timer,      \* a root.after(..., update_stations) callback is pending
    st,         \* index into STATION_ARTISTS of the station being updated
    station,    \* the Station (self) of the running fetch_departures
    nurls,      \* how many URLs get_urls() yields in this call
    u,          \* URLs requested so far in this call
    merged,     \* fetch_departures' list `departures` as the loops fill it
    result,     \* the list fetch_departures returned
    err,        \* the exception that left the call, NoErr if none
    slots,      \* per station, the DepartureArtists' canvas items
    i,          \* position of update_departures' zip_longest loop
    \* ---- grid.py: corner geometry, Grid ----
    prev,       \* the Cell as it was before the last operation on it
    orig,       \* the Cell before the last two anchor assignments, if the
                \* last two operations were anchor assignments (else NoSnap)
    grid,       \* the Grid's own attributes: pad_col, _cw, _rs
    got,        \* what the last Grid.get_cell call did
    \* ---- artist.py: a StackArtist and its children ----
    stack,      \* the StackArtist: its Cell attributes, flush, _artists
    steps,      \* operations performed on the stack since construction
    \* ---- grid.py: two Cells and the CellLock objects they refer to ----
    cells,      \* the Cells: instance attributes, `lock` a reference
    locks,      \* the CellLock objects: the `locked` flag of each
    holder      \* the `with c.lock:` block the program is in, if any

gridVars == <<args, cell, op, exc, fired, seen, writes>>
createVars == <<raw, created>>
fetchVars == <<station, nurls, u, merged, result, err>>
cycleVars == <<pc, timer, st, slots, i>>
dataVars == <<createVars, fetchVars, cycleVars>>
bindVars == <<cells, locks, holder>>
layoutVars == <<prev, orig, grid, got, stack, steps, bindVars>>
vars == <<gridVars, dataVars, layoutVars>>

-----------------------------------------------------------------------------
(* Bounds *)
MaxCoord == 1        \* anchor coordinates range over -MaxCoord..MaxCoord units
MaxSize == 1         \* widths and heights range over 0..MaxSize units
MaxWrites == 3       \* writes counted within one lock scope
MaxTime == 2         \* departure times range over 0..MaxTime half minutes
MaxUrls == 2         \* get_urls() yields at most this many URLs
MaxMerged == 4       \* departures merged in one fetch_departures call
MaxShown == 3        \* departures merged in one call of a refresh cycle
MaxCols == 3         \* columns of a Grid
MaxRows == 2         \* rows of a Grid
MaxChildren == 2     \* children in the list a StackArtist is built from
MaxSteps == 2        \* operations on a constructed StackArtist
MaxLen == 4          \* characters of a direction string
MaxClock == 4        \* the last instant of the day, the first being 0
MaxCalls == 3        \* calls made on one DepartureArtist
MaxCells == 2        \* Cells of a program that binds one to another

-----------------------------------------------------------------------------
(* grid.py: corners, the four lookup tables *)

None == "None"
NoExc == "none"
NoSnap == [none |-> TRUE]

Corners == {"nw", "ne", "se", "sw", "n", "e", "s", "w", "center"}

\* w/2 of a size held in half units (sizes are whole units, so this is exact)
halfOf(w) == w \div 2

corner2center_x(c, x, w) ==
    CASE c \in {"nw", "sw", "w"} -> x + halfOf(w)
      [] c \in {"ne", "se", "e"} -> x - halfOf(w)
      [] OTHER -> x

center2corner_x(c, x, w) ==
    CASE c \in {"nw", "sw", "w"} -> x - halfOf(w)
      [] c \in {"ne", "se", "e"} -> x + halfOf(w)
      [] OTHER -> x

corner2center_y(c, y, h) ==
    CASE c \in {"nw", "ne", "s"} -> y + halfOf(h)
      [] c \in {"se", "sw", "n"} -> y - halfOf(h)
      [] OTHER -> y

center2corner_y(c, y, h) ==
    CASE c \in {"nw", "ne", "s"} -> y - halfOf(h)
      [] c \in {"se", "sw", "n"} -> y + halfOf(h)
      [] OTHER -> y

\* Python's int() of a float held in half units: truncation toward zero
int(v) == IF v >= 0 THEN 2 * (v \div 2) ELSE -(2 * ((-v) \div 2))

-----------------------------------------------------------------------------
(* grid.py: Cell.  An object is its instance __dict__ (the names in dict)   *)
(* with the values of those attributes; locked is the flag of the CellLock *)
(* that attribute lock refers to.                                          *)

AllAttrs == {"_anchor", "_x", "_y", "_width", "_height", "lock"}

NewObject == [dict |-> {}, anchor |-> "center", x |-> 0, y |-> 0,
              width |-> 0, height |-> 0, locked |-> FALSE]

Geometry(o) == [anchor |-> o.anchor, x |-> o.x, y |-> o.y,
                width |-> o.width, height |-> o.height]

\* the outcome of a method: the object after it, the exception it raised,
\* the _on_resize invocations it made and what the last of them saw
Outcome(o, e, n, s) == [cell |-> o, exc |-> e, fired |-> n, seen |-> s]
Returned(o) == Outcome(o, NoExc, 0, NoSnap)
Raised(o, e) == Outcome(o, e, 0, NoSnap)

\* one statement after another: the second runs on the object the first left,
\* unless the first raised
Then(r, next(_)) ==
    IF r.exc # NoExc THEN r
    ELSE LET r2 == next(r.cell)
         IN  Outcome(r2.cell, r2.exc, r.fired + r2.fired,
                     IF r2.fired > 0 THEN r2.seen ELSE r.seen)

\* CellLock.__enter__ / __exit__
CellLock_enter(o) == [o EXCEPT !.locked = TRUE]
CellLock_exit(o) == [o EXCEPT !.locked = FALSE]

\* Cell._on_resize: the callback itself does nothing; the outcome records
\* that it ran and the geometry it could read
on_resize(o) == Outcome(o, NoExc, 1, Geometry(o))

\* Cell.resize
resize_ignoring_lock(o) ==
    IF "lock" \notin o.dict THEN Raised(o, "AttributeError")
    ELSE on_resize(o)
resize(o) ==
    IF "lock" \notin o.dict THEN Raised(o, "AttributeError")
    ELSE IF ~o.locked THEN on_resize(o)
    ELSE Returned(o)

\* Cell._corners_differ: "true", "false" or the exception raised
corners_differ(o, corner) ==
    IF corner = None THEN "false"
    ELSE IF corner \notin Corners THEN "ValueError"
    ELSE IF "_anchor" \notin o.dict THEN "AttributeError"
    ELSE IF corner = o.anchor THEN "false"
    ELSE "true"

\* Cell.get_x / Cell.get_y on an object whose attributes exist and a corner
\* that is valid (note that get_y passes self.width, as grid.py does)
get_x(o, corner) ==
    IF corners_differ(o, corner) = "true"
    THEN center2corner_x(corner, corner2center_x(o.anchor, o.x, o.width), o.width)
    ELSE o.x

get_y(o, corner) ==
    IF corners_differ(o, corner) = "true"
    THEN center2corner_y(corner, corner2center_y(o.anchor, o.y, o.width), o.width)
    ELSE o.y

\* the property setters
x_setter(o, v) == resize([o EXCEPT !.x = int(v), !.dict = @ \cup {"_x"}])
y_setter(o, v) == resize([o EXCEPT !.y = int(v), !.dict = @ \cup {"_y"}])
width_setter(o, v) == resize([o EXCEPT !.width = int(v), !.dict = @ \cup {"_width"}])
height_setter(o, v) == resize([o EXCEPT !.height = int(v), !.dict = @ \cup {"_height"}])

\* the anchor setter without the recomputation of x and y, and with the
\* int() of the other setters
anchor_setter_keeping_xy(o, val) ==
    LET d == corners_differ(o, val)
    IN  IF d \in {"ValueError", "AttributeError"} THEN Raised(o, d)
        ELSE IF d = "false" THEN Returned(o)
        ELSE Returned([o EXCEPT !.anchor = val])
anchor_setter_truncating(o, val) ==
    LET d == corners_differ(o, val)
    IN  IF d \in {"ValueError", "AttributeError"} THEN Raised(o, d)
        ELSE IF d = "false" THEN Returned(o)
        ELSE Returned([o EXCEPT !.x = int(get_x(o, val)),
                                !.y = int(get_y(o, val)), !.anchor = val])
anchor_setter(o, val) ==
    LET d == corners_differ(o, val)
    IN  IF d \in {"ValueError", "AttributeError"} THEN Raised(o, d)
        ELSE IF d = "false" THEN Returned(o)
        ELSE IF {"_x", "_width"} \subseteq o.dict /\ "_y" \in o.dict
        THEN Returned([o EXCEPT !.x = get_x(o, val), !.y = get_y(o, val),
                                !.anchor = val])
        ELSE Raised(o, "AttributeError")

\* Cell.set_x / Cell.set_y: self.x += x - self.get_x(corner)
set_x(o, x, corner) ==
    LET d == corners_differ(o, corner)
    IN  IF d \in {"ValueError", "AttributeError"} THEN Raised(o, d)
        ELSE x_setter(o, o.x + x - get_x(o, corner))

set_y(o, y, corner) ==
    LET d == corners_differ(o, corner)
    IN  IF d \in {"ValueError", "AttributeError"} THEN Raised(o, d)
        ELSE y_setter(o, o.y + y - get_y(o, corner))

\* Cell.__init__(x, y, width, height, anchor) on a fresh object
Cell_init(a) ==
    LET anchor == IF a.anchor = None THEN "center" ELSE a.anchor
        SetAnchor(o) == anchor_setter(o, anchor)
        SetX(o) == x_setter(o, a.x)
        SetY(o) == y_setter(o, a.y)
        SetWidth(o) == width_setter(o, a.width)
        SetHeight(o) == height_setter(o, a.height)
        SetLock(o) == Returned([o EXCEPT !.dict = @ \cup {"lock"}, !.locked = FALSE])
    IN  Then(Then(Then(Then(Then(SetAnchor(NewObject), SetX), SetY),
                       SetWidth), SetHeight), SetLock)


-----------------------------------------------------------------------------
(* data.py: raw records, Departure, Station._create_departure *)

\* the "when" of a raw record: the key may be absent, its value null, a
\* string dateutil cannot parse, or a timestamp; a timestamp is held as the
\* half minutes between it and now (time_left's dep - datetime.now())
Absent == [kind |-> "absent"]
Null == [kind |-> "null"]
Unparseable == [kind |-> "unparseable"]
At(t) == [kind |-> "time", t |-> t]

Whens(T) == {Absent, Null, Unparseable} \cup {At(t) : t \in T}

RawRecords(Ids, W, Dirs, Lines) ==
    [tripId : Ids, when : W, direction : Dirs, line : Lines]

\* a line of the API: its id and its product
Line(id, product) == [id |-> id, product |-> product]

\* what a call did: returned a value or raised
Value(v) == [kind |-> "value", value |-> v]
ReturnedNone == [kind |-> "None"]
Raise(e, data) == [kind |-> "raise", exc |-> e, data |-> data]

\* time_left(timestr): minutes (here half minutes) until departure
time_left(timestr) ==
    IF timestr.kind = "time" THEN Value(timestr.t)
    ELSE Raise("ParserError", timestr)

\* Departure (frozen dataclass)
Departure(id, line, direction, time, product, reachable) ==
    [id |-> id, line |-> line, direction |-> direction, time_left |-> time,
     product |-> product, reachable |-> reachable]

\* Departure.__lt__, __eq__ (and __hash__, consistent with it)
lt(a, b) == a.time_left < b.time_left
eq(a, b) == a.id = b.id

\* Station._create_departure(data)
create_departure_reachable_at_time_needed(self, data) ==
    IF data.when.kind = "absent" THEN Raise("KeyError", data)
    ELSE IF data.when.kind = "null" THEN ReturnedNone
    ELSE LET time == time_left(data.when)
         IN  IF time.kind = "raise" THEN Raise(time.exc, data)
             ELSE IF time.value < self.min_time THEN ReturnedNone
             ELSE Value(Departure(data.tripId, data.line.id, data.direction,
                                  time.value, data.line.product,
                                  time.value >= self.time_needed))
create_departure(self, data) ==
    IF data.when.kind = "absent" THEN Raise("KeyError", data)
    ELSE IF data.when.kind = "null" THEN ReturnedNone
    ELSE LET time == time_left(data.when)
         IN  IF time.kind = "raise" THEN Raise(time.exc, data)
             ELSE IF time.value < self.min_time THEN ReturnedNone
             ELSE Value(Departure(data.tripId, data.line.id, data.direction,
                                  time.value, data.line.product,
                                  time.value > self.time_needed))

-----------------------------------------------------------------------------
(* data.py: the end of Station.fetch_departures, lines 116-118 *)

\* list(dict.fromkeys(departures)): a dict keeps the first key of each class
\* of equal keys, in the order of first insertion
RECURSIVE fromkeys(_, _)
fromkeys(keys, departures) ==
    IF departures = <<>> THEN keys
    ELSE LET d == Head(departures)
         IN  IF \E k \in 1..Len(keys) : eq(keys[k], d)
             THEN fromkeys(keys, Tail(departures))
             ELSE fromkeys(Append(keys, d), Tail(departures))

RECURSIVE fromkeys_keeping_last(_, _)
fromkeys_keeping_last(keys, departures) ==
    IF departures = <<>> THEN keys
    ELSE LET d == Head(departures)
         IN  IF \E k \in 1..Len(keys) : eq(keys[k], d)
             THEN fromkeys_keeping_last(
                      [k \in 1..Len(keys) |-> IF eq(keys[k], d) THEN d ELSE keys[k]],
                      Tail(departures))
             ELSE fromkeys_keeping_last(Append(keys, d), Tail(departures))

duplicate_filter_keeping_last(departures) == fromkeys_keeping_last(<<>>, departures)
duplicate_filter(departures) == fromkeys(<<>>, departures)

\* list.sort(): stable, comparing with __lt__ only.  One element is placed
\* behind every element that is not greater than it.
insert(sorted, d) ==
    LET greater == {k \in 1..Len(sorted) : lt(d, sorted[k])}
        pos == IF greater = {} THEN Len(sorted) + 1
               ELSE CHOOSE k \in greater : \A j \in greater : k <= j
    IN  SubSeq(sorted, 1, pos - 1) \o <<d>> \o SubSeq(sorted, pos, Len(sorted))

RECURSIVE sort_into(_, _)
sort_into(sorted, departures) ==
    IF departures = <<>> THEN sorted
    ELSE sort_into(insert(sorted, Head(departures)), Tail(departures))

\* the same with an unstable placement: before the elements not less than it
insert_unstable(sorted, d) ==
    LET notless == {k \in 1..Len(sorted) : ~lt(sorted[k], d)}
        pos == IF notless = {} THEN Len(sorted) + 1
               ELSE CHOOSE k \in notless : \A j \in notless : k <= j
    IN  SubSeq(sorted, 1, pos - 1) \o <<d>> \o SubSeq(sorted, pos, Len(sorted))

RECURSIVE sort_into_unstable(_, _)
sort_into_unstable(sorted, departures) ==
    IF departures = <<>> THEN sorted
    ELSE sort_into_unstable(insert_unstable(sorted, Head(departures)),
                            Tail(departures))

sort_unstable(departures) == sort_into_unstable(<<>>, departures)
sort(departures) == sort_into(<<>>, departures)

\* what fetch_departures returns for the list its loops built
fetch_departures_unfinished(departures) == departures
fetch_departures_return(departures) == sort(duplicate_filter(departures))

-----------------------------------------------------------------------------
(* artist.py: DepartureArtist, the canvas items of one display slot *)

NoDeparture == [kind |-> "None"]       \* update_departure(None)

\* defines.py: the icons loaded from data/lines, by file stem
ICONS == {"empty", "default", "s9", "suburban", "bus"}
COLOR_TXT == "#ffffff"
COLOR_NOTIME == "#d22222"
COLOR_ERROR == "#808080"
\* a text is held as the sequence of its characters; the literal "could not
\* fetch departure" of line 293 is held as one token
NoDataText == <<"could not fetch departure">>

\* DepartureArtist.__init__: the items as created
NewDepartureArtist ==
    [last_tripid |-> None,
     icon |-> "",
     drct |-> NoDataText, drct_fill |-> COLOR_ERROR,
     dots |-> <<>>,
     time |-> "", time_fill |-> COLOR_TXT]

\* DepartureArtist.configure_icon
configure_icon(a, departure) ==
    IF departure = NoDeparture THEN [a EXCEPT !.icon = "empty"]
    ELSE [a EXCEPT !.icon = IF departure.line \in ICONS THEN departure.line
                             ELSE IF departure.product \in ICONS THEN departure.product
                             ELSE "default"]

\* defines.py: DIRECTION_FILTER, WIDTH_DIRECTION
DIRECTION_FILTER ==
    <<<<<<"S", "c", "h", "i", "e", "n", "e", "n", "e", "r", "s", "a", "t", "z", "v", "e", "r", "k", "e", "h", "r">>,
        <<"S", "E", "V">>>>,
      <<<<"E", "r", "s", "a", "t", "z", "v", "e", "r", "k", "e", "h", "r">>,
        <<"E", "V">>>>,
      <<<<"(", "B", "e", "r", "l", "i", "n", ")">>,
        <<>>>>,
      <<<<"B", "h", "f">>,
        <<>>>>,
      <<<<"F", "l", "u", "g", "h", "a", "f", "e", "n", " ", "B", "E", "R">>,
        <<"B", "E", "R">>>>>>
WIDTH_DIRECTION == 250

\* textwidth(char, FONT_DEPARTURE): the font's measure of one character,
\* and textwidth(string, FONT_DEPARTURE) as the sum over the characters
charwidth(char) ==
    CASE char = "." -> 30
      [] char = "f" -> 40
      [] char = "B" -> 90
      [] char = "M" -> 110
      [] OTHER -> 60

RECURSIVE textwidth(_)
textwidth(string) ==
    IF string = <<>> THEN 0 ELSE charwidth(Head(string)) + textwidth(Tail(string))

\* str.replace(filt, replacement): every occurrence, left to right
RECURSIVE replace(_, _, _)
replace(string, filt, replacement) ==
    IF Len(string) < Len(filt) THEN string
    ELSE IF SubSeq(string, 1, Len(filt)) = filt
    THEN replacement \o replace(SubSeq(string, Len(filt) + 1, Len(string)),
                                filt, replacement)
    ELSE <<Head(string)>> \o replace(Tail(string), filt, replacement)

\* the loop over DIRECTION_FILTER from entry k on
RECURSIVE filtered(_, _)
filtered(string, k) ==
    IF k > Len(DIRECTION_FILTER) THEN string
    ELSE filtered(replace(string, DIRECTION_FILTER[k][1], DIRECTION_FILTER[k][2]),
                  k + 1)

\* the scan of lines 311-316 from character k on: the idx it ends with
RECURSIVE scan_past_limit(_, _, _)
scan_past_limit(string, k, occupied) ==
    IF k > Len(string) THEN Len(string)
    ELSE LET new_occupied == occupied + charwidth(string[k])
         IN  IF new_occupied > WIDTH_DIRECTION THEN k - 1
             ELSE scan_past_limit(string, k + 1, new_occupied)
RECURSIVE scan(_, _, _)
scan(string, k, occupied) ==
    IF k > Len(string) THEN Len(string)
    ELSE LET new_occupied == occupied + charwidth(string[k])
         IN  IF new_occupied >= WIDTH_DIRECTION THEN k - 1
             ELSE scan(string, k + 1, new_occupied)

\* "." * count
dotstring(count) == [k \in 1..count |-> "."]

\* DepartureArtist.configure_drct
configure_drct(a, departure) ==
    IF departure = NoDeparture
    THEN [a EXCEPT !.drct = NoDataText, !.drct_fill = COLOR_ERROR,
                   !.dots = <<" ">>]
    ELSE LET string == filtered(departure.direction, 1)
             width_dot == charwidth(".")
             available == WIDTH_DIRECTION
             occupied == textwidth(string)
             count == (available - occupied) \div width_dot
         IN  IF occupied < available
             THEN [a EXCEPT !.drct = string, !.drct_fill = COLOR_TXT,
                            !.dots = IF count > 1 THEN dotstring(count) ELSE <<>>]
             ELSE [a EXCEPT !.drct = SubSeq(string, 1, scan(string, 1, width_dot))
                                         \o <<".">>,
                            !.drct_fill = COLOR_TXT, !.dots = <<>>]

\* floor() of a time held in half minutes, and str() of it
floor(t) == t \div 2
str(n) == ToString(n)

\* DepartureArtist.configure_time
configure_time(a, departure) ==
    IF departure = NoDeparture THEN [a EXCEPT !.time = " "]
    ELSE [a EXCEPT !.time = str(floor(departure.time_left)),
                   !.time_fill = IF departure.reachable THEN COLOR_TXT
                                 ELSE COLOR_NOTIME]

\* DepartureArtist.update_departure
update_departure_unless_None(a, departure) ==
    IF departure = NoDeparture THEN a
    ELSE LET tripid == departure.id
             b == IF tripid # a.last_tripid
                  THEN configure_drct(configure_icon(
                           [a EXCEPT !.last_tripid = tripid], departure), departure)
                  ELSE a
         IN  configure_time(b, departure)
update_departure(a, departure) ==
    LET tripid == IF departure = NoDeparture THEN None ELSE departure.id
        b == IF tripid # a.last_tripid
             THEN configure_drct(configure_icon(
                      [a EXCEPT !.last_tripid = tripid], departure), departure)
             ELSE a
    IN  configure_time(b, departure)

-----------------------------------------------------------------------------
(* The parts of the program that a specification leaves alone *)

NoRaw == [kind |-> "None"]
NoErr == [kind |-> "None"]
NoStation == [min_time |-> 0, time_needed |-> 0]

GridIdle ==
    /\ args = [x |-> 0, y |-> 0, width |-> 0, height |-> 0, anchor |-> None]
    /\ cell = NewObject
    /\ op = [name |-> "new", val |-> 0]
    /\ exc = NoExc
    /\ fired = 0
    /\ seen = NoSnap
    /\ writes = 0

NotCalled == [kind |-> "not called"]

CreateIdle ==
    /\ raw = NoRaw
    /\ created = NotCalled

CycleIdle ==
    /\ pc = "idle"
    /\ timer = FALSE
    /\ st = 0
    /\ slots = <<>>
    /\ i = 0

FetchIdle ==
    /\ station = NoStation
    /\ nurls = 0
    /\ u = 0
    /\ merged = <<>>
    /\ result = <<>>
    /\ err = NoErr

NoGrid == [pad_col |-> 0, cw |-> <<>>, rs |-> <<>>]
NoStack == [none |-> TRUE]

GeomIdle ==
    /\ prev = NoSnap
    /\ orig = NoSnap

GridObjIdle ==
    /\ grid = NoGrid
    /\ got = NotCalled

StackIdle ==
    /\ stack = NoStack
    /\ steps = 0

NoHolder == [none |-> TRUE]

BindIdle ==
    /\ cells = <<>>
    /\ locks = <<>>
    /\ holder = NoHolder

LayoutIdle == GeomIdle /\ GridObjIdle /\ StackIdle /\ BindIdle

-----------------------------------------------------------------------------
(* grid.py: the calls a program makes on a Cell *)

Units(S) == {2 * k : k \in S}
Coords == Units(-MaxCoord..MaxCoord)         \* integer coordinates
Sizes == Units(0..MaxSize)                   \* integer sizes
FloatCoords == (-2 * MaxCoord)..(2 * MaxCoord) \* float arguments of a write
FloatSizes == 0..(2 * MaxSize)

\* the arguments of Cell(x, y, width, height, anchor); "zz" is no anchor
CellArgs == [x : Coords, y : Coords, width : Sizes, height : Sizes,
             anchor : Corners \cup {None, "zz"}]

WriteOps == {"x", "y", "width", "height"}
Op(name, val) == [name |-> name, val |-> val]

\* c = Cell(x, y, width, height, anchor): the whole of __init__
Construct ==
    /\ op.name = "new"
    /\ LET r == Cell_init(args)
       IN  /\ cell' = r.cell
           /\ exc' = r.exc
           /\ fired' = r.fired
           /\ seen' = r.seen
    /\ op' = Op("__init__", 0)
    /\ UNCHANGED <<args, writes, dataVars, layoutVars>>

\* cell.x = v, cell.y = v, cell.width = v, cell.height = v
Write(name, v) ==
    /\ op.name # "new"
    /\ exc = NoExc
    /\ cell.locked => writes < MaxWrites
    /\ LET r == CASE name = "x" -> x_setter(cell, v)
                  [] name = "y" -> y_setter(cell, v)
                  [] name = "width" -> width_setter(cell, v)
                  [] name = "height" -> height_setter(cell, v)
       IN  /\ cell' = r.cell
           /\ exc' = r.exc
           /\ fired' = r.fired
           /\ seen' = r.seen
    /\ op' = Op(name, v)
    /\ writes' = IF cell.locked THEN writes + 1 ELSE writes
    /\ UNCHANGED <<args, dataVars, layoutVars>>

WriteX == \E v \in FloatCoords : Write("x", v)
WriteY == \E v \in FloatCoords : Write("y", v)
WriteWidth == \E v \in FloatSizes : Write("width", v)
WriteHeight == \E v \in FloatSizes : Write("height", v)

\* entering `with cell.lock:` (one level of nesting, as every call site has)
LockEnter ==
    /\ op.name # "new"
    /\ exc = NoExc
    /\ ~cell.locked
    /\ cell' = CellLock_enter(cell)
    /\ op' = Op("__enter__", 0)
    /\ fired' = 0
    /\ seen' = NoSnap
    /\ writes' = 0
    /\ UNCHANGED <<args, exc, dataVars, layoutVars>>

\* leaving `with cell.lock:`; writes keeps the count of the scope just left
LockExit ==
    /\ op.name # "new"
    /\ exc = NoExc
    /\ cell.locked
    /\ cell' = CellLock_exit(cell)
    /\ op' = Op("__exit__", 0)
    /\ fired' = 0
    /\ seen' = NoSnap
    /\ UNCHANGED <<args, exc, writes, dataVars, layoutVars>>

-----------------------------------------------------------------------------
(* Specifications of the grid.py Cell *)

\* SpecInit: a program that calls Cell(...) with any of the bounded arguments
InitNew ==
    /\ args \in CellArgs
    /\ cell = NewObject
    /\ op = Op("new", 0)
    /\ exc = NoExc
    /\ fired = 0
    /\ seen = NoSnap
    /\ writes = 0
    /\ CreateIdle /\ FetchIdle /\ CycleIdle /\ LayoutIdle

NextInit == Construct

SpecInit == InitNew /\ [][NextInit]_vars

\* SpecCell: a program working on a Cell that holds every attribute that
\* __init__ assigns (lines 72-77), integer geometry, its lock not held
CellOf(a) == [dict |-> AllAttrs, anchor |-> a.anchor, x |-> a.x, y |-> a.y,
              width |-> a.width, height |-> a.height, locked |-> FALSE]

NoArgs == [x |-> 0, y |-> 0, width |-> 0, height |-> 0, anchor |-> None]

InitCell ==
    /\ args = NoArgs
    /\ cell \in {CellOf(a) : a \in {b \in CellArgs : b.anchor \in Corners}}
    /\ op = Op("constructed", 0)
    /\ exc = NoExc
    /\ fired = 0
    /\ seen = NoSnap
    /\ writes = 0
    /\ CreateIdle /\ FetchIdle /\ CycleIdle /\ LayoutIdle

NextCell ==
    \/ WriteX
    \/ WriteY
    \/ WriteWidth
    \/ WriteHeight
    \/ LockEnter
    \/ LockExit

SpecCell == InitCell /\ [][NextCell]_vars

-----------------------------------------------------------------------------
(* data.py: a call of Station._create_departure *)

TripIds == {"A", "B", "C"}
Times == 0..MaxTime
S9 == Line("s9", "suburban")
X11 == Line("x11", "bus")

CreateDeparture ==
    /\ created = NotCalled
    /\ raw # NoRaw
    /\ created' = create_departure(station, raw)
    /\ UNCHANGED <<raw, fetchVars, cycleVars, gridVars, layoutVars>>

\* SpecCreate: _create_departure on any record, for any thresholds
InitCreate ==
    /\ GridIdle /\ CycleIdle /\ LayoutIdle
    /\ station \in [min_time : Times, time_needed : Times]
    /\ raw \in RawRecords(TripIds, Whens(Times), {<<"X">>}, {S9, X11})
    /\ created = NotCalled
    /\ nurls = 0 /\ u = 0 /\ merged = <<>> /\ result = <<>> /\ err = NoErr

NextCreate == CreateDeparture

SpecCreate == InitCreate /\ [][NextCreate]_vars

-----------------------------------------------------------------------------
(* data.py: Station.fetch_departures, step by step.                        *)
(* pc = "urls":    at `for url in self.get_urls()`, u of nurls URLs done   *)
(* pc = "records": at `for departure_data in ...` over one URL's records   *)
(* pc = "returned": fetch_departures returned to a caller of its own       *)
(* pc = "raised":  an exception left the call (and every caller above)     *)

\* station.fetch_departures() is entered
CallFetch(self) ==
    /\ station' = self
    /\ nurls' \in 0..MaxUrls
    /\ u' = 0
    /\ merged' = <<>>
    /\ result' = <<>>
    /\ err' = NoErr
    /\ pc' = "urls"

\* the next URL: _fetch_raw_departure_data(url).  session.get raises on a
\* network error; a body that is no JSON counts as no departures.
RequestUrl ==
    /\ pc = "urls"
    /\ u < nurls
    /\ \E response \in {"departures", "undecodable", "network error"} :
         CASE response = "network error" ->
                /\ pc' = "raised"
                /\ err' = Raise("ConnectionError", NoRaw)
                /\ u' = u
           [] response = "undecodable" ->
                /\ pc' = "urls"
                /\ err' = err
                /\ u' = u + 1
           [] response = "departures" ->
                /\ pc' = "records"
                /\ err' = err
                /\ u' = u + 1
    /\ UNCHANGED <<station, nurls, merged, result, timer, st, slots, i,
                   createVars, gridVars, layoutVars>>

\* the body of the inner loop on the next record of the response
ConvertRecord(Records, N) ==
    /\ pc = "records"
    /\ \E data \in Records :
         LET departure == create_departure(station, data)
         IN  CASE departure.kind = "raise" ->
                    /\ pc' = "raised"
                    /\ err' = departure
                    /\ merged' = merged
               [] departure.kind = "None" ->
                    /\ UNCHANGED <<pc, err, merged>>
               [] departure.kind = "value" ->
                    /\ Len(merged) < N
                    /\ merged' = Append(merged, departure.value)
                    /\ UNCHANGED <<pc, err>>
    /\ UNCHANGED <<station, nurls, u, result, timer, st, slots, i,
                   createVars, gridVars, layoutVars>>

\* the response has no more records
EndResponse ==
    /\ pc = "records"
    /\ pc' = "urls"
    /\ UNCHANGED <<fetchVars, timer, st, slots, i, createVars, gridVars, layoutVars>>

\* no more URLs: the duplicate filter, the sort and the return, to
\* update_departures (st > 0) or to another caller
FetchReturn ==
    /\ pc = "urls"
    /\ u = nurls
    /\ result' = fetch_departures_return(merged)
    /\ IF st = 0 THEN pc' = "returned" /\ i' = i
       ELSE pc' = "display" /\ i' = 1
    /\ UNCHANGED <<station, nurls, u, merged, err, timer, st, slots,
                   createVars, gridVars, layoutVars>>

\* SpecStation: one call of fetch_departures on a station
StationConfigs == {[min_time |-> 1, time_needed |-> 2]}
StationRecords == RawRecords(TripIds, Whens(Times), {<<"X">>}, {S9})

InitStation ==
    /\ GridIdle /\ CreateIdle /\ LayoutIdle
    /\ station \in StationConfigs
    /\ nurls \in 0..MaxUrls
    /\ u = 0 /\ merged = <<>> /\ result = <<>> /\ err = NoErr
    /\ pc = "urls" /\ timer = FALSE /\ st = 0 /\ slots = <<>> /\ i = 0

NextStation ==
    \/ RequestUrl
    \/ ConvertRecord(StationRecords, MaxMerged)
    \/ EndResponse
    \/ FetchReturn

SpecStation == InitStation /\ [][NextStation]_vars

-----------------------------------------------------------------------------
(* __main__.py: update_stations and update_departures.                     *)
(* pc = "idle":    between two runs of update_stations                     *)
(* pc = "display": in update_departures' loop, at pair i of zip_longest    *)
(* pc = "updated": update_departures(station, artists) has completed       *)

\* STATION_ARTISTS as main() builds it: each station with the number of
\* DepartureArtists create_station_artist gave it
STATION_ARTISTS ==
    << [station |-> [min_time |-> 2, time_needed |-> 3], artists |-> 2],
       [station |-> [min_time |-> 2, time_needed |-> 3], artists |-> 1] >>

\* the records a refresh cycle is fed in this model
CycleRecords ==
    RawRecords({"A", "B"}, {Absent, Null, At(1), At(2), At(4)}, {<<"X">>}, {S9})

\* the timer fires: update_stations() starts on the first station
TimerTick ==
    /\ pc = "idle"
    /\ timer
    /\ timer' = FALSE
    /\ st' = 1
    /\ CallFetch(STATION_ARTISTS[1].station)
    /\ UNCHANGED <<slots, i, createVars, gridVars, layoutVars>>

\* one pair of zip_longest(departures, artists) with an artist in it
UpdateSlot ==
    /\ pc = "display"
    /\ i <= Len(slots[st])
    /\ LET departure == IF i <= Len(result) THEN result[i] ELSE NoDeparture
       IN  slots' = [slots EXCEPT ![st][i] = update_departure(@, departure)]
    /\ i' = i + 1
    /\ UNCHANGED <<pc, timer, st, fetchVars, createVars, gridVars, layoutVars>>

\* the loop ends: zip_longest is exhausted, or the artist is None (break)
EndDisplay ==
    /\ pc = "display"
    /\ i > Len(slots[st])
    /\ pc' = "updated"
    /\ UNCHANGED <<i, timer, st, slots, fetchVars, createVars, gridVars, layoutVars>>

\* update_stations goes on to the next station
NextStationArtist ==
    /\ pc = "updated"
    /\ st < Len(STATION_ARTISTS)
    /\ st' = st + 1
    /\ CallFetch(STATION_ARTISTS[st + 1].station)
    /\ UNCHANGED <<timer, slots, i, createVars, gridVars, layoutVars>>

\* root.after(STATION_UPDATE_TIME, update_stations): the last statement
Reschedule ==
    /\ pc = "updated"
    /\ st = Len(STATION_ARTISTS)
    /\ timer' = TRUE
    /\ pc' = "idle"
    /\ st' = 0
    /\ merged' = <<>>
    /\ result' = <<>>
    /\ UNCHANGED <<station, nurls, u, err, slots, i, createVars, gridVars, layoutVars>>

\* SpecMain: main() has built the artists and called
\* root.after(0, update_stations); the main loop runs
InitMain ==
    /\ GridIdle /\ CreateIdle /\ LayoutIdle
    /\ pc = "idle"
    /\ timer = TRUE
    /\ st = 0
    /\ slots = [s \in 1..Len(STATION_ARTISTS) |->
                  [k \in 1..STATION_ARTISTS[s].artists |-> NewDepartureArtist]]
    /\ i = 0
    /\ station = NoStation
    /\ nurls = 0 /\ u = 0 /\ merged = <<>> /\ result = <<>> /\ err = NoErr

NextMain ==
    \/ TimerTick
    \/ RequestUrl
    \/ ConvertRecord(CycleRecords, MaxShown)
    \/ EndResponse
    \/ FetchReturn
    \/ UpdateSlot
    \/ EndDisplay
    \/ NextStationArtist
    \/ Reschedule

SpecMain == InitMain /\ [][NextMain]_vars

-----------------------------------------------------------------------------
(* Claims about the grid.py Cell *)

\* C1: when the lock scope of a Cell is left after one or more writes to x, y,
\* width or height made while locked, _on_resize fires exactly once at that
\* moment.  (CellLock.__exit__ only clears the flag: it fires nothing.)
C1_ExitFiresOnce ==
    (op.name = "__exit__" /\ writes > 0) => fired = 1

\* C2: every write to x, y, width or height of a Cell whose lock is not held
\* invokes _on_resize exactly once, after the new value is stored (the callback
\* reads the geometry the write leaves); every such write made while the lock
\* is held invokes it zero times.
StoredBy(o, w) ==
    CASE w.name = "x" -> o.x = int(w.val)
      [] w.name = "y" -> o.y = int(w.val)
      [] w.name = "width" -> o.width = int(w.val)
      [] w.name = "height" -> o.height = int(w.val)

C2_WriteFiresIffUnlocked ==
    op.name \in WriteOps =>
        /\ exc = NoExc
        /\ StoredBy(cell, op)
        /\ IF cell.locked
           THEN fired = 0 /\ seen = NoSnap
           ELSE fired = 1 /\ seen = Geometry(cell)

\* an unlocked write that fired, made after a lock scope with writes in it,
\* whose float argument int() truncated
C2_Witness ==
    /\ op.name = "x" /\ op.val = -1
    /\ ~cell.locked /\ fired = 1 /\ cell.x = 0
    /\ writes = 2

\* C3: Cell(x, y, width, height, anchor) with integer arguments and one of the
\* nine anchors (or none, meaning center) completes without error and yields
\* an unlocked cell whose x, y, width, height and anchor are the arguments.
C3_ConstructionCompletes ==
    (op.name = "__init__" /\ args.anchor \in Corners \cup {None}) =>
        /\ exc = NoExc
        /\ cell.dict = AllAttrs
        /\ ~cell.locked
        /\ Geometry(cell) =
             [anchor |-> IF args.anchor = None THEN "center" ELSE args.anchor,
              x |-> args.x, y |-> args.y,
              width |-> args.width, height |-> args.height]

-----------------------------------------------------------------------------
(* Claims about Station.fetch_departures *)

Min(a, b) == IF a <= b THEN a ELSE b
Ids(departures) == {departures[k].id : k \in 1..Len(departures)}

\* the index of the first departure of the list with this id
FirstIndex(departures, id) ==
    CHOOSE k \in 1..Len(departures) :
        /\ departures[k].id = id
        /\ \A j \in 1..(k - 1) : departures[j].id # id

\* C4: fetch_departures returns a list in which no two departures have the
\* same id; every id among the converted records of the call occurs exactly
\* once in it; the departure kept for an id is its first occurrence in merge
\* order, even when a later one has another time_left; and departures with
\* different ids and equal time_left are both kept.
C4_FirstOccurrenceOfEachId ==
    pc = "returned" =>
        /\ \A a, b \in 1..Len(result) : a # b => result[a].id # result[b].id
        /\ \A k \in 1..Len(merged) :
             Cardinality({j \in 1..Len(result) : result[j].id = merged[k].id}) = 1
        /\ \A j \in 1..Len(result) :
             /\ result[j].id \in Ids(merged)
             /\ result[j] = merged[FirstIndex(merged, result[j].id)]

\* an id fetched twice with different times, the later one sooner, and two
\* other departures at one time
C4_Witness ==
    /\ pc = "returned"
    /\ \E a, b \in 1..Len(merged) :
         /\ a < b
         /\ merged[a].id = merged[b].id
         /\ merged[b].time_left < merged[a].time_left
    /\ \E a, b \in 1..Len(result) :
         /\ a # b
         /\ result[a].time_left = result[b].time_left

\* C5: the list returned is a permutation of the merged, de-duplicated list,
\* in ascending order of time_left, and departures with equal time_left keep
\* the order they had in the merged, de-duplicated list.
FirstOccurrences(departures) ==
    {k \in 1..Len(departures) :
        \A j \in 1..(k - 1) : departures[j].id # departures[k].id}

C5_StableAscendingPermutation ==
    pc = "returned" =>
        /\ Len(result) = Cardinality(FirstOccurrences(merged))
        /\ \A k \in FirstOccurrences(merged) :
             \E j \in 1..Len(result) : result[j] = merged[k]
        /\ \A a, b \in 1..Len(result) :
             a < b =>
               /\ result[a].time_left <= result[b].time_left
               /\ result[a].time_left = result[b].time_left =>
                    FirstIndex(merged, result[a].id) < FirstIndex(merged, result[b].id)

\* the example [A@5, B@3, A@5, C@3] -> [B@3, C@3, A@5], with 2 and 1 half
\* minutes for 5 and 3 minutes
IdsAndTimes(departures) ==
    [k \in 1..Len(departures) |-> <<departures[k].id, departures[k].time_left>>]

C5_Witness ==
    /\ pc = "returned"
    /\ IdsAndTimes(merged) = << <<"A", 2>>, <<"B", 1>>, <<"A", 2>>, <<"C", 1>> >>
    /\ IdsAndTimes(result) = << <<"B", 1>>, <<"C", 1>>, <<"A", 2>> >>

\* C8: a raw record whose departure time is absent, null or unparseable is
\* skipped: no error leaves fetch_departures because of it.
\* (A record without "when" raises KeyError, an unparseable one ParserError,
\* and fetch_departures re-raises both.)
C8_BadTimeIsSkipped ==
    (pc = "raised" /\ err.data # NoRaw) =>
        err.data.when.kind \notin {"absent", "null", "unparseable"}

-----------------------------------------------------------------------------
(* Claims about Station._create_departure *)

\* C10: _create_departure returns no departure when the record's `when` is
\* null or its minutes until departure are less than station.min_time;
\* otherwise it returns a Departure (of the record's trip and time) that is
\* reachable exactly when the minutes are greater than station.time_needed.
C10_CreateDeparture ==
    created # NotCalled =>
        /\ raw.when.kind = "null" => created = ReturnedNone
        /\ raw.when.kind = "time" =>
             IF raw.when.t < station.min_time
             THEN created = ReturnedNone
             ELSE /\ created.kind = "value"
                  /\ created.value.id = raw.tripId
                  /\ created.value.line = raw.line.id
                  /\ created.value.time_left = raw.when.t
                  /\ created.value.reachable <=> (raw.when.t > station.time_needed)

\* a record at exactly min_time and exactly time_needed: kept, not reachable
C10_Witness ==
    /\ created.kind = "value"
    /\ raw.when = At(station.min_time)
    /\ station.time_needed = station.min_time
    /\ ~created.value.reachable

-----------------------------------------------------------------------------
(* Claims about the refresh cycle *)

\* a slot shows this departure: its trip, and the minutes left of it in the
\* colour that tells whether it can be reached
Shows(a, departure) ==
    /\ a.last_tripid = departure.id
    /\ a.time = str(floor(departure.time_left))
    /\ a.time_fill = IF departure.reachable THEN COLOR_TXT ELSE COLOR_NOTIME

\* a slot shows the "no data" marker and nothing of a departure
ShowsNoData(a) ==
    /\ a.last_tripid = None
    /\ a.icon \in {"", "empty"}
    /\ a.drct = NoDataText
    /\ a.drct_fill = COLOR_ERROR
    /\ a.dots \in {<<>>, <<" ">>}
    /\ a.time = " "

C7_CycleEndsRescheduled ==
    pc \in {"idle", "raised"} => timer

\* C9: in one run of update_stations, the merge, the de-duplication and the
\* sort of a station's departures are complete before the first
\* update_departure call on one of its slots: whenever a slot is updated, every
\* URL has been merged and the list the slots are fed is the merged list
\* without duplicate ids, in ascending order of time.
PipelineComplete ==
    /\ u = nurls
    /\ Ids(result) = Ids(merged)
    /\ \A a, b \in 1..Len(result) :
         a < b => /\ result[a].id # result[b].id
                  /\ result[a].time_left <= result[b].time_left

C9_PipelineBeforeDisplay ==
    [][slots' # slots => (pc = "display" /\ PipelineComplete)]_vars

\* a slot has been updated from a list that the duplicate filter shortened
\* and the sort reordered
C9_Witness ==
    /\ pc = "display"
    /\ i > 1
    /\ Len(result) < Len(merged)
    /\ result[1] # merged[1]
    /\ slots[st][1].last_tripid = result[1].id


-----------------------------------------------------------------------------
(* grid.py: corner geometry of a Cell.  SpecAnchor: a program that         *)
(* re-bases the anchor of a Cell that holds every attribute __init__       *)
(* assigns, with integer geometry, any number of times.                    *)

\* cell.anchor = b
AssignAnchor ==
    \E b \in Corners :
        /\ exc = NoExc
        /\ LET r == anchor_setter(cell, b)
           IN  /\ cell' = r.cell
               /\ exc' = r.exc
               /\ fired' = r.fired
               /\ seen' = r.seen
        /\ op' = Op("anchor", b)
        /\ prev' = cell
        /\ orig' = IF op.name = "anchor" THEN prev ELSE NoSnap
        /\ UNCHANGED <<args, writes, dataVars, grid, got, stack, steps, bindVars>>

InitAnchor ==
    /\ args = NoArgs
    /\ cell \in {CellOf(a) : a \in {b \in CellArgs : b.anchor \in Corners}}
    /\ op = Op("constructed", 0)
    /\ exc = NoExc
    /\ fired = 0
    /\ seen = NoSnap
    /\ writes = 0
    /\ CreateIdle /\ FetchIdle /\ CycleIdle /\ LayoutIdle

NextAnchor == AssignAnchor

SpecAnchor == InitAnchor /\ [][NextAnchor]_vars

\* ---- what the documentation says of the corners ----

\* twice the offset of a corner from the centre, per axis
ox2(c) == CASE c \in {"nw", "w", "sw"} -> -1
            [] c \in {"ne", "e", "se"} -> 1
            [] OTHER -> 0
oy2(c) == CASE c \in {"nw", "n", "ne"} -> -1
            [] c \in {"sw", "s", "se"} -> 1
            [] OTHER -> 0

\* C12: for every Cell and corner, get_x(corner) = x + (ox(corner) -
\* ox(anchor)) * width and get_y(corner) = y + (oy(corner) - oy(anchor)) *
\* height (sizes are in half units, so (ox2 - ox2) * (size / 2))
C12_CornerFormula ==
    \A c \in Corners :
        /\ get_x(cell, c) = cell.x + (ox2(c) - ox2(cell.anchor)) * halfOf(cell.width)
        /\ get_y(cell, c) = cell.y + (oy2(c) - oy2(cell.anchor)) * halfOf(cell.height)

\* C13: assigning a new anchor leaves every corner's get_x and get_y, the
\* width and the height as they were
C13_AnchorKeepsRectangle ==
    (op.name = "anchor" /\ exc = NoExc) =>
        /\ \A c \in Corners : /\ get_x(cell, c) = get_x(prev, c)
                               /\ get_y(cell, c) = get_y(prev, c)
        /\ cell.width = prev.width
        /\ cell.height = prev.height

C13_Witness ==
    /\ op.name = "anchor" /\ exc = NoExc
    /\ cell.anchor = "se" /\ prev.anchor = "nw"
    /\ cell.width > 0
    /\ cell.x # prev.x /\ cell.y # prev.y

\* C14: anchor = b and then anchor = a, a being the anchor the Cell had,
\* restores the original x, y and anchor
C14_AnchorRoundTrip ==
    (orig # NoSnap /\ op.name = "anchor" /\ op.val = orig.anchor /\ exc = NoExc) =>
        /\ cell.x = orig.x
        /\ cell.y = orig.y
        /\ cell.anchor = orig.anchor

C14_Witness ==
    /\ orig # NoSnap /\ op.name = "anchor" /\ op.val = orig.anchor /\ exc = NoExc
    /\ orig.anchor = "center" /\ prev.anchor = "nw"
    /\ orig.width = 2 /\ orig.x = 2
    /\ prev.x # orig.x /\ prev.y # orig.y
    /\ cell.x = orig.x


-----------------------------------------------------------------------------
(* grid.py: normal, Grid.  A Grid is a Cell (held in cell) with pad_col,   *)
(* the column weights _cw and the row sizes _rs (held in grid).            *)

Throw(e) == [kind |-> "raise", exc |-> e]

RECURSIVE sum(_)
sum(s) == IF s = <<>> THEN 0 ELSE Head(s) + sum(Tail(s))

\* normal(weights): each weight over the sum, held as <<w, N>>
normal(weights) ==
    IF Len(weights) = 0 THEN Throw("ValueError")
    ELSE IF sum(weights) = 0 THEN Throw("ValueError")
    ELSE Value([k \in 1..Len(weights) |-> <<weights[k], sum(weights)>>])

\* Grid.free_width
free_width(g, o) == o.width - g.pad_col * Len(g.cw)

\* Grid.get_cell(row, col) with the default spans and anchor.  Line 266
\* computes a width; line 267 multiplies the list cweights[:col] by the
\* integer self.width (a repetition of the list) and adds that list to the
\* number get_x("nw") returned, which raises TypeError; lines 270-279 are
\* never reached.
get_cell(g, o, row, col) ==
    LET cweights == normal(g.cw)
    IN  IF cweights.kind = "raise" THEN cweights
        ELSE Throw("TypeError")

\* Grid.append_row / pop_row / append_col / pop_col: the list operation and
\* nothing else
append_row(g, size) == Value([g EXCEPT !.rs = Append(@, size)])
pop_row(g) ==
    IF g.rs = <<>> THEN Throw("IndexError")
    ELSE Value([g EXCEPT !.rs = SubSeq(@, 1, Len(@) - 1)])
append_col(g, weight) == Value([g EXCEPT !.cw = Append(@, weight)])
pop_col(g) ==
    IF g.cw = <<>> THEN Throw("IndexError")
    ELSE Value([g EXCEPT !.cw = SubSeq(@, 1, Len(@) - 1)])

Weights == {-1, 0, 1}

\* a row or column operation: r is what the list operation did
Mutate(name, val, r) ==
    /\ exc = NoExc
    /\ cell.locked => writes < MaxWrites
    /\ grid' = IF r.kind = "value" THEN r.value ELSE grid
    /\ exc' = IF r.kind = "value" THEN NoExc ELSE r.exc
    /\ op' = Op(name, val)
    /\ fired' = 0
    /\ seen' = NoSnap
    /\ writes' = IF cell.locked /\ r.kind = "value" THEN writes + 1 ELSE writes
    /\ got' = NotCalled
    /\ UNCHANGED <<args, cell, dataVars, prev, orig, stack, steps, bindVars>>

AppendRow ==
    \E size \in Sizes : Len(grid.rs) < MaxRows /\ Mutate("append_row", size, append_row(grid, size))
PopRow ==
    /\ op.name # "new"
    /\ Mutate("pop_row", 0, pop_row(grid))
AppendCol ==
    \E weight \in Weights :
        Len(grid.cw) < MaxCols /\ Mutate("append_col", weight, append_col(grid, weight))
PopCol ==
    /\ op.name # "new"
    /\ Mutate("pop_col", 0, pop_col(grid))

\* grid.get_cell(row, col)
GetCell ==
    \E row \in 0..(MaxRows - 1), col \in 0..(MaxCols - 1) :
        /\ exc = NoExc
        /\ ~cell.locked
        /\ LET r == get_cell(grid, cell, row, col)
           IN  /\ got' = r
               /\ exc' = IF r.kind = "value" THEN NoExc ELSE r.exc
        /\ op' = [name |-> "get_cell", row |-> row, col |-> col]
        /\ fired' = 0
        /\ seen' = NoSnap
        /\ UNCHANGED <<args, cell, writes, grid, dataVars, prev, orig, stack, steps, bindVars>>

\* SpecGrid: a program working on a Grid that holds the attributes the two
\* __init__ assign: the defaults [1] and [0], or lists that were passed in
GridCells ==
    {CellOf(a) : a \in {b \in CellArgs : /\ b.anchor \in {"nw", "center"}
                                         /\ b.x = 0 /\ b.y = 0}}

InitGrid ==
    /\ args = NoArgs
    /\ cell \in GridCells
    /\ grid \in [pad_col : Sizes, cw : {<<1>>, <<1, 1>>}, rs : {<<0>>, <<2>>}]
    /\ got = NotCalled
    /\ op = Op("constructed", 0)
    /\ exc = NoExc
    /\ fired = 0
    /\ seen = NoSnap
    /\ writes = 0
    /\ CreateIdle /\ FetchIdle /\ CycleIdle /\ GeomIdle /\ StackIdle /\ BindIdle

NextGrid ==
    \/ AppendRow
    \/ PopRow
    \/ AppendCol
    \/ PopCol
    \/ GetCell
    \/ LockEnter
    \/ LockExit

SpecGrid == InitGrid /\ [][NextGrid]_vars

\* ---- what the documentation says of the Grid ----

CellAt(r, c) == get_cell(grid, cell, r, c)

\* C15: with non-empty rows and column weights of positive sum, the cells
\* get_cell returns for all valid (r, c) lie inside the grid's box,
\* horizontal neighbours are pad_col apart, rows follow one another at their
\* sizes, and the widths plus the padding add up to the grid's width
C15_CellsTileTheGrid ==
    (op.name = "get_cell" /\ grid.rs # <<>> /\ grid.cw # <<>> /\ sum(grid.cw) > 0) =>
        LET R == 0..(Len(grid.rs) - 1)
            C == 0..(Len(grid.cw) - 1)
            RECURSIVE widths(_)
            widths(c) == IF c \notin C THEN 0
                         ELSE CellAt(0, c).value.width + widths(c + 1)
        IN  /\ \A r \in R, c \in C :
                   /\ CellAt(r, c).kind = "value"
                   /\ get_x(CellAt(r, c).value, "nw") >= get_x(cell, "nw")
                   /\ get_y(CellAt(r, c).value, "nw") >= get_y(cell, "nw")
                   /\ get_x(CellAt(r, c).value, "se") <= get_x(cell, "se")
                   /\ get_y(CellAt(r, c).value, "se") <= get_y(cell, "se")
                   /\ CellAt(r, c).value.height = grid.rs[r + 1]
                   /\ (c + 1) \in C =>
                          get_x(CellAt(r, c + 1).value, "nw")
                              - get_x(CellAt(r, c).value, "se") = grid.pad_col
                   /\ (r + 1) \in R =>
                          get_y(CellAt(r + 1, c).value, "nw")
                              = get_y(CellAt(r, c).value, "nw") + grid.rs[r + 1]
            /\ widths(0) + grid.pad_col * (Len(grid.cw) + 1) = cell.width

RowColOps == {"append_row", "pop_row", "append_col", "pop_col"}

\* C16: each of append_row, append_col, pop_row and pop_col fires the
\* re-placement callback exactly once when the grid is unlocked, and when it
\* is locked the callback fires when the lock is left
C16_RowColFires ==
    /\ (op.name \in RowColOps /\ exc = NoExc /\ ~cell.locked) => fired = 1
    /\ (op.name \in RowColOps /\ exc = NoExc /\ cell.locked) => fired = 0
    /\ (op.name = "__exit__" /\ writes > 0) => fired = 1

\* C17: the column-weight list never holds a negative weight: append_col
\* with a negative weight fails and leaves the list as it was
C17_NoNegativeWeight ==
    /\ \A k \in 1..Len(grid.cw) : grid.cw[k] >= 0
    /\ (op.name = "append_col" /\ op.val < 0) => exc # NoExc


-----------------------------------------------------------------------------
(* artist.py: its own Cell (static size, no lock), StackArtist             *)

\* the lookup tables of artist.py (the x tables read as those of grid.py)
artist_corner2center_x(c, x, w) ==
    CASE c \in {"nw", "sw", "w"} -> x + halfOf(w)
      [] c \in {"ne", "se", "e"} -> x - halfOf(w)
      [] OTHER -> x

artist_center2corner_x(c, x, w) ==
    CASE c \in {"nw", "sw", "w"} -> x - halfOf(w)
      [] c \in {"ne", "se", "e"} -> x + halfOf(w)
      [] OTHER -> x

artist_corner2center_y(c, y, h) ==
    CASE c \in {"nw", "ne", "n"} -> y + halfOf(h)
      [] c \in {"se", "sw", "s"} -> y - halfOf(h)
      [] OTHER -> y

artist_center2corner_y(c, y, h) ==
    CASE c \in {"nw", "ne", "n"} -> y - halfOf(h)
      [] c \in {"se", "sw", "s"} -> y + halfOf(h)
      [] OTHER -> y

\* _validate_corner: the corner, "center" for None, or the exception
validate_corner(corner) ==
    IF corner = None THEN "center"
    ELSE IF corner \in Corners THEN corner
    ELSE "ValueError"

\* Cell.__init__ of artist.py
artist_Cell(x, y, width, height, anchor) ==
    LET a == validate_corner(IF anchor = None THEN "center" ELSE anchor)
    IN  IF a = "ValueError" THEN Throw("ValueError")
        ELSE Value([x |-> int(x), y |-> int(y), width |-> int(width),
                    height |-> int(height), anchor |-> a])

\* the read-only properties width and height (and, for comparison, a width
\* that follows the children a stack holds at the time it is read)
RECURSIVE widest(_)
widest(artists) ==
    IF artists = <<>> THEN 0
    ELSE LET m == widest(Tail(artists))
         IN  IF Head(artists).width >= m THEN Head(artists).width ELSE m
width_of_children(o) ==
    IF "artists" \in DOMAIN o THEN widest(o.artists) ELSE o.width
width(o) == o.width
height(o) == o.height

\* Cell.get_x / get_y of artist.py, for a corner of the nine or None
artist_get_x(o, c) ==
    LET corner == validate_corner(c)
    IN  IF corner # o.anchor
        THEN artist_center2corner_x(corner,
                 artist_corner2center_x(o.anchor, o.x, width(o)), width(o))
        ELSE o.x

artist_get_y(o, c) ==
    LET corner == validate_corner(c)
    IN  IF corner # o.anchor
        THEN artist_center2corner_y(corner,
                 artist_corner2center_y(o.anchor, o.y, height(o)), height(o))
        ELSE o.y

\* Cell.set_x / set_y of artist.py: self.x += x - self.get_x(corner), the
\* x setter storing int() of it
\* (for comparison: a move by x, relative to where the artist is)
artist_move_x(o, x, c) == [o EXCEPT !.x = int(o.x + x)]
artist_set_x(o, x, c) == [o EXCEPT !.x = int(o.x + x - artist_get_x(o, c))]
artist_set_y(o, y, c) == [o EXCEPT !.y = int(o.y + y - artist_get_y(o, c))]

\* a child of a stack: an Artist with the canvas items of a
\* DepartureArtist and the point update_position last moved them to
NotPlaced == [none |-> TRUE]
Child(c) == [x |-> c.x, y |-> c.y, width |-> c.width, height |-> c.height,
             anchor |-> c.anchor, items |-> NewDepartureArtist, at |-> NotPlaced]

\* DepartureArtist.update_position: the items go to the "w" corner
child_update_position(a) ==
    [a EXCEPT !.at = [x |-> artist_get_x(a, "w"), y |-> artist_get_y(a, "w")]]

\* DepartureArtist.clear_departure
clear_departure(a) ==
    configure_time(configure_drct(configure_icon(
        [a EXCEPT !.last_tripid = None], NoDeparture), NoDeparture), NoDeparture)

RECURSIVE heights(_)
heights(artists) ==
    IF artists = <<>> THEN 0 ELSE height(Head(artists)) + heights(Tail(artists))

RECURSIVE max_width(_)
max_width(artists) ==
    IF Len(artists) = 1 THEN width(Head(artists))
    ELSE LET m == max_width(Tail(artists))
         IN  IF width(Head(artists)) >= m THEN width(Head(artists)) ELSE m

\* the argument `artists`: None, or a list
NoList == [given |-> FALSE, list |-> <<>>]
List(l) == [given |-> TRUE, list |-> l]

\* StackArtist.__init__(canvas, x, y, anchor, flush, artists); the stack
\* keeps the very list it was given (aliased)
StackArtist_init_first_child(x, y, anchor, flush, artists) ==
    LET f == validate_corner(flush)
        list == IF ~artists.given THEN <<>> ELSE artists.list
        c == artist_Cell(x, y,
                 IF Len(list) > 0 THEN width(list[1]) ELSE 0,
                 IF Len(list) > 0 THEN height(list[1]) ELSE 0, anchor)
    IN  IF f = "ValueError" THEN Throw("ValueError")
        ELSE IF c.kind = "raise" THEN c
        ELSE Value([x |-> c.value.x, y |-> c.value.y, width |-> c.value.width,
                    height |-> c.value.height, anchor |-> c.value.anchor,
                    flush |-> f, artists |-> list, aliased |-> artists.given])
StackArtist_init(x, y, anchor, flush, artists) ==
    LET f == validate_corner(flush)
        list == IF ~artists.given THEN <<>> ELSE artists.list
        c == artist_Cell(x, y,
                 IF Len(list) > 0 THEN max_width(list) ELSE 0,
                 heights(list), anchor)
    IN  IF f = "ValueError" THEN Throw("ValueError")
        ELSE IF c.kind = "raise" THEN c
        ELSE Value([x |-> c.value.x, y |-> c.value.y, width |-> c.value.width,
                    height |-> c.value.height, anchor |-> c.value.anchor,
                    flush |-> f, artists |-> list, aliased |-> artists.given])

\* the loop of StackArtist.update_position from child k on, y being the
\* cursor
RECURSIVE place(_, _, _, _, _)
place(artists, k, x, y, flush) ==
    IF k > Len(artists) THEN artists
    ELSE LET a == child_update_position(
                      artist_set_y(artist_set_x(artists[k], x, flush), y, "nw"))
         IN  place([artists EXCEPT ![k] = a], k + 1, x, y + height(a), flush)

\* StackArtist.update_position
update_position(s) ==
    [s EXCEPT !.artists = place(s.artists, 1, artist_get_x(s, s.flush),
                                artist_get_y(s, "nw"), s.flush)]

\* GridCanvas.on_resize(event) of a canvas whose only artist, at (0, 0), is
\* the stack: query_size gives its width and height, the padding is half
\* the space left (an exact half unit count, the sizes being whole units)
canvas_on_resize(s, flush, event) ==
    LET padx == (event.width - width(s)) \div 2
        pady == (event.height - height(s)) \div 2
        c == artist_Cell(padx, pady, width(s), height(s), "nw").value
        s1 == artist_set_x(s, artist_get_x(c, flush), flush)
        s2 == artist_set_y(s1, artist_get_y(c, flush), flush)
    IN  update_position(s2)

-----------------------------------------------------------------------------
(* artist.py: the calls a program makes on a StackArtist *)

StackAnchors == {"w", "nw"}
Flushes == {None, "w"}
ChildAnchors == {"w", "nw"}

\* the Artists a stack is built from, constructed at (0, 0) as every Artist
\* subclass does
ChildCellsOf(a) ==
    {Child(c) : c \in [x : {0}, y : {0}, width : Sizes, height : Sizes,
                       anchor : {a}]}
ChildCells == UNION {ChildCellsOf(a) : a \in ChildAnchors}

\* the lists a stack is built from: the program gives every Artist of one
\* list the same anchor
ChildLists ==
    UNION {[1..n -> ChildCellsOf(a)] : n \in 0..MaxChildren, a \in ChildAnchors}

\* stack = StackArtist(canvas, x, y, anchor, flush, artists)
ConstructStack ==
    /\ stack = NoStack
    /\ exc = NoExc
    /\ \E x \in Coords, y \in Coords, anchor \in StackAnchors \cup {None},
          flush \in Flushes,
          artists \in {List(l) : l \in ChildLists} \cup {NoList} :
        /\ LET r == StackArtist_init(x, y, anchor, flush, artists)
           IN  /\ stack' = IF r.kind = "value" THEN r.value ELSE stack
               /\ exc' = IF r.kind = "value" THEN NoExc ELSE r.exc
        /\ op' = Op("StackArtist", 0)
        /\ steps' = 0
        /\ UNCHANGED <<args, cell, fired, seen, writes, dataVars,
                       prev, orig, grid, got, bindVars>>

\* an operation on the constructed stack
StackOp(o, s) ==
    /\ stack # NoStack
    /\ exc = NoExc
    /\ steps < MaxSteps
    /\ stack' = s
    /\ op' = o
    /\ steps' = steps + 1
    /\ UNCHANGED <<args, cell, exc, fired, seen, writes, dataVars,
                   prev, orig, grid, got, bindVars>>

\* stack.update_position()
UpdatePosition ==
    /\ stack # NoStack
    /\ StackOp(Op("update_position", 0), update_position(stack))

MoveCorners == {None, "nw", "center", "se"}
MoveOp(name, target, val, corner) ==
    [name |-> name, target |-> target, val |-> val, corner |-> corner]

\* the artist a call is made on: 0 is the stack, k >= 1 its k-th child
Target(s, k) == IF k = 0 THEN s ELSE s.artists[k]
WithTarget(s, k, a) == IF k = 0 THEN a ELSE [s EXCEPT !.artists[k] = a]

\* artist.set_x(X, corner), artist.set_y(Y, corner) on the stack or a child
ArtistSetX ==
    \E X \in Coords, corner \in MoveCorners :
        /\ stack # NoStack
        /\ \E k \in 0..Len(stack.artists) :
               StackOp(MoveOp("set_x", k, X, corner),
                       WithTarget(stack, k, artist_set_x(Target(stack, k), X, corner)))

ArtistSetY ==
    \E Y \in Coords, corner \in MoveCorners :
        /\ stack # NoStack
        /\ \E k \in 0..Len(stack.artists) :
               StackOp(MoveOp("set_y", k, Y, corner),
                       WithTarget(stack, k, artist_set_y(Target(stack, k), Y, corner)))

ShownDepartures == {NoDeparture, Departure("A", "s9", <<"X">>, 2, "suburban", TRUE)}

\* child.update_departure(departure), child.clear_departure()
ChildUpdateDeparture ==
    \E d \in ShownDepartures :
        /\ stack # NoStack
        /\ \E k \in 1..Len(stack.artists) :
               StackOp(MoveOp("update_departure", k, 0, None),
                       [stack EXCEPT !.artists[k].items = update_departure(@, d)])

ChildClearDeparture ==
    /\ stack # NoStack
    /\ \E k \in 1..Len(stack.artists) :
           StackOp(MoveOp("clear_departure", k, 0, None),
                   [stack EXCEPT !.artists[k].items = clear_departure(@)])

EventSizes == Units(0..(MaxSize + 1))

\* a <Configure> event on the canvas the stack sits on
CanvasResize ==
    \E flush \in Flushes,
       event \in [width : EventSizes, height : EventSizes] :
        /\ stack # NoStack
        /\ StackOp([name |-> "on_resize", flush |-> flush, event |-> event],
                   canvas_on_resize(stack, flush, event))

\* artists.append(a) on the list that was passed as `artists`
ListAppend ==
    \E a \in ChildCells :
        /\ stack # NoStack
        /\ stack.aliased
        /\ Len(stack.artists) <= MaxChildren
        /\ StackOp(Op("append", 0), [stack EXCEPT !.artists = Append(@, a)])

\* SpecStack: a program that builds a StackArtist and places it
InitStack ==
    /\ GridIdle /\ CreateIdle /\ FetchIdle /\ CycleIdle /\ GeomIdle /\ GridObjIdle
    /\ BindIdle
    /\ stack = NoStack
    /\ steps = 0

NextStack ==
    \/ ConstructStack
    \/ UpdatePosition

SpecStack == InitStack /\ [][NextStack]_vars

\* SpecLayout: a program working on a StackArtist it has built at (0, 0)
\* from a list of children
BuiltStacks ==
    {StackArtist_init(0, 0, anchor, "w", List(artists)).value :
        anchor \in {"w", "center"}, artists \in ChildLists}

InitLayout ==
    /\ GridIdle /\ CreateIdle /\ FetchIdle /\ CycleIdle /\ GeomIdle /\ GridObjIdle
    /\ BindIdle
    /\ stack \in BuiltStacks
    /\ steps = 0

NextLayout ==
    \/ UpdatePosition
    \/ ArtistSetX
    \/ ArtistSetY
    \/ ChildUpdateDeparture
    \/ ChildClearDeparture
    \/ CanvasResize
    \/ ListAppend

SpecLayout == InitLayout /\ [][NextLayout]_vars

\* ---- what the documentation says of the artist.py Cell and the stack ----

\* C11: after set_x(X, corner) and set_y(Y, corner) on a Cell of integer
\* geometry, get_x(corner) = X and get_y(corner) = Y
C11_CornerRoundTrip ==
    /\ op.name = "set_x" =>
           artist_get_x(Target(stack, op.target), op.corner) = op.val
    /\ op.name = "set_y" =>
           artist_get_y(Target(stack, op.target), op.corner) = op.val

\* sum of the heights of the first n children, and the largest width
RECURSIVE HeightsBefore(_, _)
HeightsBefore(artists, n) ==
    IF n = 0 THEN 0 ELSE artists[n].height + HeightsBefore(artists, n - 1)

LargestWidth(artists) ==
    IF artists = <<>> THEN 0
    ELSE CHOOSE w \in {artists[k].width : k \in 1..Len(artists)} :
             \A k \in 1..Len(artists) : artists[k].width <= w

\* C18: after update_position the top edge of child i is the stack's top
\* edge plus the heights of the children before it, the bottom of a child
\* is the top of the next, and every child's flush corner has the x of
\* the stack's
C18_ChildrenStacked ==
    op.name = "update_position" =>
        \A k \in 1..Len(stack.artists) :
            /\ artist_get_y(stack.artists[k], "nw")
                   = artist_get_y(stack, "nw") + HeightsBefore(stack.artists, k - 1)
            /\ k < Len(stack.artists) =>
                   artist_get_y(stack.artists[k], "sw")
                       = artist_get_y(stack.artists[k + 1], "nw")
            /\ artist_get_x(stack.artists[k], stack.flush)
                   = artist_get_x(stack, stack.flush)

\* C19: a StackArtist built from a list of children has the sum of their
\* heights as height and the largest of their widths as width, 0 and 0
\* with no children
C19_StackSize ==
    (op.name = "StackArtist" /\ exc = NoExc) =>
        /\ stack.height = HeightsBefore(stack.artists, Len(stack.artists))
        /\ stack.width = LargestWidth(stack.artists)
        /\ stack.artists = <<>> => (stack.width = 0 /\ stack.height = 0)

C19_Witness ==
    /\ op.name = "StackArtist" /\ exc = NoExc
    /\ Len(stack.artists) = 2
    /\ stack.artists[1].height = 2 /\ stack.artists[2].height = 2
    /\ stack.artists[1].width = 0 /\ stack.artists[2].width = 2
    /\ stack.height = 4 /\ stack.width = 2

\* C20: no operation on a constructed StackArtist, its children, its canvas
\* or the list it was built from changes the stack's width or height
C20_StackSizeFixed ==
    [][/\ width(stack') = width(stack)
       /\ height(stack') = height(stack)]_vars

C20_Witness ==
    /\ op.name = "append"
    /\ LargestWidth(stack.artists) > stack.width
    /\ HeightsBefore(stack.artists, Len(stack.artists)) > stack.height
    /\ width(stack) = stack.width

\* the stack and its children moved away from where they are
RECURSIVE DisplaceAll(_, _, _, _)
DisplaceAll(artists, k, dx, dy) ==
    IF k > Len(artists) THEN artists
    ELSE DisplaceAll([artists EXCEPT ![k].x = @ + k * dx, ![k].y = @ - k * dy],
                     k + 1, dx, dy)
Displace(s, dx, dy) ==
    [s EXCEPT !.x = @ + dx, !.y = @ + dy,
              !.artists = DisplaceAll(@, 1, dx, dy)]

\* C21: on_resize is free of drift: the positions it leaves depend on the
\* event and the sizes only; handling the same event again, from these
\* positions or from any others, gives the same positions
C21_NoDrift ==
    op.name = "on_resize" =>
        \A dx \in Coords, dy \in Coords :
            canvas_on_resize(Displace(stack, dx, dy), op.flush, op.event) = stack

C21_Witness ==
    /\ op.name = "on_resize" /\ steps = 2
    /\ Len(stack.artists) = 2
    /\ stack.artists[2].height = 2
    /\ op.event.width = 4 /\ op.event.height = 2
    /\ stack.x # 0 /\ stack.artists[2].y # stack.artists[1].y
    /\ stack.artists[2].at # NotPlaced


-----------------------------------------------------------------------------
(* artist.py: one DepartureArtist and the calls made on it *)

\* the strings of up to n characters over an alphabet
RECURSIVE Strings(_, _)
Strings(alphabet, n) ==
    IF n = 0 THEN {<<>>}
    ELSE LET shorter == Strings(alphabet, n - 1)
         IN  shorter \cup {Append(string, char) : string \in shorter, char \in alphabet}

DirectionChars == {"B", "h", "f", "M"}
DrctDepartures ==
    {Departure("A", "s9", string, 2, "suburban", TRUE) :
         string \in Strings(DirectionChars, MaxLen)} \cup {NoDeparture}

\* a DepartureArtist as constructed, the only slot of the only station
OneSlot ==
    /\ GridIdle /\ CreateIdle /\ FetchIdle /\ LayoutIdle
    /\ pc = "idle"
    /\ timer = FALSE
    /\ st = 0
    /\ i = 0
    /\ slots = <<<<NewDepartureArtist>>>>

\* artist.configure_drct(departure)
ConfigureDrct ==
    \E departure \in DrctDepartures :
        /\ slots' = [slots EXCEPT ![1][1] = configure_drct(@, departure)]
        /\ op' = [name |-> "configure_drct", departure |-> departure]
        /\ UNCHANGED <<args, cell, exc, fired, seen, writes, createVars, fetchVars,
                       pc, timer, st, i, layoutVars>>

InitDrct == OneSlot
NextDrct == ConfigureDrct
SpecDrct == InitDrct /\ [][NextDrct]_vars

\* C22: a direction whose width after the filters is WIDTH_DIRECTION or
\* more is shown as a prefix followed by ".", the longest prefix whose
\* width together with the width of "." stays below WIDTH_DIRECTION; a
\* narrower direction is shown unchanged
C22_Truncation ==
    (op.name = "configure_drct" /\ op.departure # NoDeparture) =>
        LET string == filtered(op.departure.direction, 1)
            shown == slots[1][1].drct
            fits(n) == charwidth(".") + textwidth(SubSeq(string, 1, n))
                           < WIDTH_DIRECTION
        IN  IF textwidth(string) >= WIDTH_DIRECTION
            THEN \E n \in 0..Len(string) :
                     /\ shown = SubSeq(string, 1, n) \o <<".">>
                     /\ fits(n)
                     /\ \A m \in (n + 1)..Len(string) : ~fits(m)
            ELSE shown = string

\* a direction of exactly WIDTH_DIRECTION loses its last character
C22_Witness ==
    /\ op.name = "configure_drct" /\ op.departure # NoDeparture
    /\ op.departure.direction = <<"M", "h", "f", "f">>
    /\ textwidth(op.departure.direction) = WIDTH_DIRECTION
    /\ slots[1][1].drct = <<"M", "h", "f", ".">>


-----------------------------------------------------------------------------
(* data.py: time_is_between on three datetimes of one day, each held as  *)
(* its instant 0..MaxClock of the day                                    *)

time_is_between_same_day(start, time, stop) ==
    IF start = stop THEN Raise("ValueError", <<start, stop>>)
    ELSE Value(start < time /\ time < stop)
time_is_between(start, time, stop) ==
    IF start = stop THEN Raise("ValueError", <<start, stop>>)
    ELSE LET A == start < stop
             B == start < time
             C == time < stop
         IN  Value(IF A THEN B /\ C ELSE B \/ C)

Clock == 0..MaxClock

TimeIsBetween ==
    /\ created = NotCalled
    /\ created' = time_is_between(raw.start, raw.time, raw.stop)
    /\ UNCHANGED <<raw, fetchVars, cycleVars, gridVars, layoutVars>>

InitBetween ==
    /\ GridIdle /\ CycleIdle /\ FetchIdle /\ LayoutIdle
    /\ raw \in [start : Clock, time : Clock, stop : Clock]
    /\ created = NotCalled

NextBetween == TimeIsBetween
SpecBetween == InitBetween /\ [][NextBetween]_vars

\* the instants met on the way forward from start to stop, past midnight
\* where stop is the earlier of the two, both ends left out
Day == MaxClock + 1
Window(start, stop) ==
    {(start + k) % Day : k \in 1..(((stop - start) % Day) - 1)}

-----------------------------------------------------------------------------
(* artist.py: update_departure and clear_departure on one DepartureArtist *)

\* the departures of two trips, as two fetches may report them: a trip
\* keeps its id while its line, its destination and its time change
SlotDepartures ==
    {Departure(id, line.id, direction, time, line.product, TRUE) :
         id \in {"A", "B"}, line \in {S9, X11},
         direction \in {<<"X">>, <<"Y">>}, time \in {2, 4}}
        \cup {NoDeparture}

\* artist.update_departure(departure)
SlotUpdateDeparture ==
    /\ steps < MaxCalls
    /\ \E departure \in SlotDepartures :
           /\ slots' = [slots EXCEPT ![1][1] = update_departure(@, departure)]
           /\ op' = [name |-> "update_departure", departure |-> departure]
    /\ steps' = steps + 1
    /\ UNCHANGED <<args, cell, exc, fired, seen, writes, createVars, fetchVars,
                   pc, timer, st, i, prev, orig, grid, got, stack, bindVars>>

\* artist.clear_departure()
SlotClearDeparture ==
    /\ steps < MaxCalls
    /\ slots' = [slots EXCEPT ![1][1] = clear_departure(@)]
    /\ op' = [name |-> "clear_departure", departure |-> NoDeparture]
    /\ steps' = steps + 1
    /\ UNCHANGED <<args, cell, exc, fired, seen, writes, createVars, fetchVars,
                   pc, timer, st, i, prev, orig, grid, got, stack, bindVars>>

InitSlot == OneSlot
NextSlot ==
    \/ SlotUpdateDeparture
    \/ SlotClearDeparture
SpecSlot == InitSlot /\ [][NextSlot]_vars

\* what the three items show once all of them were configured for a
\* departure (or for None)
Configured(departure) ==
    configure_time(configure_drct(configure_icon(NewDepartureArtist, departure),
                                  departure), departure)

\* C24: after update_departure(departure) or clear_departure() the icon
\* and the direction shown are those of the departure of this call (the
\* "no data" marker for None, with the empty icon or with no icon yet),
\* and the time text is that of this call
C24_ShowsMostRecent ==
    op.name \in {"update_departure", "clear_departure"} =>
        LET a == slots[1][1]
            shown == Configured(op.departure)
        IN  /\ a.icon = shown.icon
                   \/ (op.departure = NoDeparture /\ a.icon = "")
            /\ a.drct = shown.drct
            /\ a.drct_fill = shown.drct_fill
            /\ a.time = shown.time

\* the same, for the calls that follow a call with another trip or with
\* None, or that come first with a departure
NewTripIsShown ==
    [][(op'.name = "update_departure"
          /\ op'.departure # NoDeparture
          /\ slots[1][1].last_tripid # op'.departure.id)
         => LET a == slots'[1][1]
                shown == Configured(op'.departure)
            IN  /\ a.icon = shown.icon
                /\ a.drct = shown.drct
                /\ a.drct_fill = shown.drct_fill
                /\ a.time = shown.time]_vars


-----------------------------------------------------------------------------
(* grid.py: several Cells. A Cell's attribute `lock` refers to a CellLock *)
(* object; `locks` holds the objects, cells[k].lock is the reference.     *)

\* the Cell as its own methods see it: the flag read through the reference
Deref(c, L) ==
    [dict |-> c.dict, anchor |-> c.anchor, x |-> c.x, y |-> c.y,
     width |-> c.width, height |-> c.height, locked |-> L[c.lock]]

\* the attributes a method left, the reference being what it was
Stored(o, lock) ==
    [dict |-> o.dict, anchor |-> o.anchor, x |-> o.x, y |-> o.y,
     width |-> o.width, height |-> o.height, lock |-> lock]

\* Cell.bind_to_cell without the `lock` entry of cell.__dict__
bind_to_cell_keeping_lock(self, other, L) ==
    LET updated == [other EXCEPT !.dict = @ \cup self.dict, !.lock = self.lock]
        r == resize(Deref(updated, L))
    IN  Outcome(Stored(r.cell, updated.lock), r.exc, r.fired, r.seen)
\* Cell.bind_to_cell: self.__dict__.update(cell.__dict__), self.resize();
\* the outcome holds self with the reference it has now
bind_to_cell(self, other, L) ==
    LET updated == [other EXCEPT !.dict = @ \cup self.dict]
        r == resize(Deref(updated, L))
    IN  Outcome(Stored(r.cell, updated.lock), r.exc, r.fired, r.seen)

BindOp(name, target, val) == [name |-> name, target |-> target, val |-> val]

\* cells[k].x = v, cells[k].width = v
CellWrite ==
    \E k \in 1..MaxCells, name \in {"x", "width"}, v \in Sizes :
        /\ LET o == Deref(cells[k], locks)
               r == IF name = "x" THEN x_setter(o, v) ELSE width_setter(o, v)
           IN  /\ cells' = [cells EXCEPT ![k] = Stored(r.cell, @.lock)]
               /\ fired' = r.fired
               /\ seen' = r.seen
               /\ exc' = r.exc
        /\ op' = BindOp(name, k, v)
        /\ UNCHANGED <<args, cell, writes, dataVars, prev, orig, grid, got,
                       stack, steps, locks, holder>>

\* cells[k].bind_to_cell(cells[j])
BindToCell ==
    \E k \in 1..MaxCells, j \in 1..MaxCells :
        /\ k # j
        /\ LET r == bind_to_cell(cells[k], cells[j], locks)
           IN  /\ cells' = [cells EXCEPT ![k] = r.cell]
               /\ fired' = r.fired
               /\ seen' = r.seen
               /\ exc' = r.exc
        /\ op' = BindOp("bind_to_cell", k, j)
        /\ UNCHANGED <<args, cell, writes, dataVars, prev, orig, grid, got,
                       stack, steps, locks, holder>>

\* `with cells[k].lock:` is entered: CellLock.__enter__
WithEnter ==
    /\ holder = NoHolder
    /\ \E k \in 1..MaxCells :
           /\ holder' = [cell |-> k, lock |-> cells[k].lock]
           /\ locks' = [locks EXCEPT ![cells[k].lock] = TRUE]
           /\ op' = BindOp("__enter__", k, 0)
    /\ fired' = 0
    /\ seen' = NoSnap
    /\ UNCHANGED <<args, cell, exc, writes, dataVars, prev, orig, grid, got,
                   stack, steps, cells>>

\* the block is left: CellLock.__exit__ on the object that was entered
WithExit ==
    /\ holder # NoHolder
    /\ holder' = NoHolder
    /\ locks' = [locks EXCEPT ![holder.lock] = FALSE]
    /\ op' = BindOp("__exit__", holder.cell, 0)
    /\ fired' = 0
    /\ seen' = NoSnap
    /\ UNCHANGED <<args, cell, exc, writes, dataVars, prev, orig, grid, got,
                   stack, steps, cells>>

\* SpecBind: MaxCells Cells as constructed, each with a CellLock of its own
BoundCells ==
    {Stored(CellOf(a), 1) : a \in {b \in CellArgs :
         b.anchor = "center" /\ b.y = 0 /\ b.height = 0 /\ b.x >= 0}}

InitBind ==
    /\ GridIdle /\ CreateIdle /\ FetchIdle /\ CycleIdle
    /\ GeomIdle /\ GridObjIdle /\ StackIdle
    /\ \E cs \in [1..MaxCells -> BoundCells] :
           cells = [k \in 1..MaxCells |-> [cs[k] EXCEPT !.lock = k]]
    /\ locks = [k \in 1..MaxCells |-> FALSE]
    /\ holder = NoHolder

NextBind ==
    \/ CellWrite
    \/ BindToCell
    \/ WithEnter
    \/ WithExit

SpecBind == InitBind /\ [][NextBind]_vars

\* C25: a write to a Cell made while the program holds the lock of
\* another Cell invokes the written Cell's _on_resize, whether or not
\* bind_to_cell was used before
C25_LocksIndependent ==
    (op.name \in {"x", "width"} /\ holder # NoHolder /\ holder.cell # op.target)
        => fired = 1


-----------------------------------------------------------------------------
(* data.py: Station._filter_following_duplicates, the generator consumed *)
(* to its end; `merged` is what the iterator `it` delivers               *)

\* the generator from `b = next(it)` on, with a in hand: what it yields
\* until next(it) raises StopIteration, which ends it
RECURSIVE yield_runs(_, _)
yield_runs(a, it) ==
    IF it = <<>> THEN <<>>
    ELSE LET b == Head(it)
         IN  IF eq(a, b) THEN yield_runs(a, Tail(it))
             ELSE <<a>> \o yield_runs(b, Tail(it))

filter_following_duplicates(it) ==
    IF it = <<>> THEN <<>> ELSE yield_runs(Head(it), Tail(it))

IteratedDepartures ==
    {Departure(id, "s9", <<"X">>, time, "suburban", TRUE) :
         id \in {"A", "B"}, time \in {2, 4}}

\* list(station._filter_following_duplicates(it))
FilterFollowingDuplicates ==
    /\ pc = "idle"
    /\ pc' = "returned"
    /\ result' = filter_following_duplicates(merged)
    /\ UNCHANGED <<station, nurls, u, merged, err, timer, st, slots, i,
                   createVars, gridVars, layoutVars>>

InitFilter ==
    /\ GridIdle /\ CreateIdle /\ LayoutIdle
    /\ pc = "idle"
    /\ timer = FALSE /\ st = 0 /\ slots = <<>> /\ i = 0
    /\ station = NoStation
    /\ nurls = 0 /\ u = 0 /\ result = <<>> /\ err = NoErr
    /\ merged \in UNION {[1..n -> IteratedDepartures] : n \in 0..MaxMerged}

NextFilter == FilterFollowingDuplicates
SpecFilter == InitFilter /\ [][NextFilter]_vars

\* the first element of every maximal run of neighbours of equal id
RECURSIVE RunHeads(_, _)
RunHeads(it, k) ==
    IF k > Len(it) THEN <<>>
    ELSE IF k = 1 \/ ~eq(it[k - 1], it[k]) THEN <<it[k]>> \o RunHeads(it, k + 1)
    ELSE RunHeads(it, k + 1)

\* C26: the generator yields, in order, the first element of every
\* maximal run of neighbours of equal id, that of the last run too, and
\* nothing else
C26_FirstOfEveryRun ==
    pc = "returned" => result = RunHeads(merged, 1)

\* what it does yield: the first element of every run but the last
YieldsAllRunsButTheLast ==
    pc = "returned" =>
        LET heads == RunHeads(merged, 1)
        IN  result = SubSeq(heads, 1, Len(heads) - 1)

=============================================================================
